---- MODULE Spec2Model ----
(***************************************************************************)
(* Model of src/pj1.add.py: a Streamlit script that is re-executed from    *)
(* top to bottom on every user interaction.  One run loads a spreadsheet,  *)
(* checks its headers, coerces and cleans the numeric columns, filters by  *)
(* region/district and computes the dashboard views.  st.stop() ends a     *)
(* run early.                                                              *)
(*                                                                         *)
(* Strings of the source that are not ASCII are written by their meaning:  *)
(* the six headers by the keys of required_columns, the selectbox          *)
(* sentinel by ALL, the nationwide title by ALL_TITLE.                     *)
(***************************************************************************)
EXTENDS Integers, Sequences, FiniteSets, TLC

\* ------------------------------------------------------------- bounds ---
\* rows of a spreadsheet explored by the whole-pipeline specification
MaxRows == 2
\* rows of the table explored by the cleaning specification
MaxCleanRows == 3
\* rows of the cleaned table explored by the filter specification
MaxFilterRows == 4
\* rows of the filtered table explored by the TopGrowth specification
MaxGrowthRows == 6
\* rows of the filtered table explored by the quadrant specification
MaxQuadRows == 5

\* ----------------------------------------------------- program constants
\* st.sidebar.slider(..., 5, 20, 10)
TopNMin == 5
TopNMax == 20
TopNDefault == 10
\* st.sidebar.number_input(value=100.0)
MinGrowthDefault == 100
\* st.number_input(value=-100.0) and st.number_input(value=0) of tab 4
FilterMinGrowthDefault == -100
FilterMinStoresDefault == 0
\* pandas' missing value, what to_numeric(errors='coerce') makes of a cell
\* that is no number; it lies outside every cell value of the model
NaN == -99999

\* '전체', the first option of both selectboxes
ALL == "ALL"
\* "전국", the title when no region is selected
ALL_TITLE == "ALL_TITLE"

\* required_columns, in the dict's order; each header is named by its key
required_columns ==
    << "industry", "region", "district", "current", "previous", "growth" >>

industry_col == required_columns[1]
region_col == required_columns[2]
district_col == required_columns[3]
stores_col == required_columns[4]
prev_stores_col == required_columns[5]
growth_col == required_columns[6]

Range(s) == {s[i] : i \in 1..Len(s)}

\* ------------------------------------------------------------- cells ---
\* A cell of a numeric column as read_excel delivers it: a number, a text
\* that spells a number ("120"), a text that does not ("N/A"), or blank.
NumCell(v) == [k |-> "num", v |-> v]
StrCell(v) == [k |-> "str", v |-> v]
TextCell == [k |-> "text", v |-> 0]
BlankCell == [k |-> "blank", v |-> 0]

\* pd.to_numeric(cell, errors='coerce')
to_numeric(c) == IF c.k \in {"num", "str"} THEN c.v ELSE NaN

\* A row as loaded; idx is the DataFrame's index label, which pandas keeps
\* through every selection and sort.
RawRow(ind, reg, dis, cur, prev, gro) ==
    [idx |-> 0, industry |-> ind, region |-> reg, district |-> dis,
     current |-> cur, previous |-> prev, growth |-> gro]

\* read_excel numbers the rows in file order
Reindex(rows) == [i \in 1..Len(rows) |-> [rows[i] EXCEPT !.idx = i]]

RECURSIVE SeqsUpTo(_, _)
SeqsUpTo(S, n) ==
    IF n = 0 THEN {<<>>}
    ELSE LET shorter == SeqsUpTo(S, n - 1)
         IN shorter \cup {Append(s, x) : s \in {t \in shorter : Len(t) = n - 1}, x \in S}

\* the sequences of a set that repeat no element
Distinct(seqs) == {s \in seqs : Cardinality(Range(s)) = Len(s)}

\* ------------------------------------------------------------- files ---
None == [kind |-> "none", msg |-> "", columns |-> {}, rows |-> <<>>]
Corrupt(m) == [kind |-> "corrupt", msg |-> m, columns |-> {}, rows |-> <<>>]
\* a spreadsheet with the headers cols; a row keeps a cell for every header,
\* and the script reads no cell before it has found all six headers present
Table(cols, rows) ==
    [kind |-> "table", msg |-> "", columns |-> cols, rows |-> Reindex(rows)]

AllColumns == Range(required_columns)

\* the rows the whole-pipeline specification builds its spreadsheets from
PipelineRows ==
    { RawRow("cafe", "Seoul", "Gangnam", NumCell(120), NumCell(50), NumCell(150)),
      RawRow("store", "Seoul", "Jung", StrCell(300), TextCell, NumCell(150)),
      RawRow("bakery", "Busan", "Jung", NumCell(120), BlankCell, NumCell(-10)),
      RawRow("gym", "Busan", "Haeundae", NumCell(80), NumCell(90), NumCell(0)),
      RawRow("salon", "Busan", "Jung", BlankCell, NumCell(90), TextCell) }

\* one row, for the spreadsheets whose headers are incomplete
SampleRows == << RawRow("cafe", "Seoul", "Gangnam", NumCell(120), NumCell(50), NumCell(150)) >>

\* the sets of headers a spreadsheet may lack: any one, any two, or all
MissingSets ==
    {gone \in SUBSET AllColumns : Cardinality(gone) \in {1, 2, Cardinality(AllColumns)}}

\* what the user can upload: an unreadable file whose exception has a text,
\* one whose exception has none, a spreadsheet lacking some of the headers,
\* a spreadsheet with all of them
Files ==
    {Corrupt("bad_file"), Corrupt("")}
    \cup {Table(AllColumns \ gone, SampleRows) : gone \in MissingSets}
    \cup {Table(AllColumns, rows) : rows \in Distinct(SeqsUpTo(PipelineRows, MaxRows))}

\* what may lie at default_file_path: nothing, or a spreadsheet
DefaultFiles == {None, Table(AllColumns, SampleRows)}

\* ------------------------------------------------------------- state ---
VARIABLES
    uploaded_file,      \* st.sidebar.file_uploader's value (None: no upload)
    default_file,       \* the file at default_file_path (None: no file)
    pc,                 \* the next block of the script, "idle" between runs
    status,             \* how the last run ended, "running" during a run
    steps,              \* the blocks this run has executed, in order
    file_source,
    df,                 \* [none, columns, rows]: load_data's frame, then cleaned
    error,              \* load_data's second result; "None" is Python's None
    missing_cols,
    selected_region, selected_district, top_n, min_growth_rate,
    filtered_df, region_title,
    messages,           \* st.error / st.warning / st.info / st.success calls
    kpi, high_growth_sorted, top_stores_df, quad, trend,
    filter_min_growth, filter_min_stores, sort_option, detail_df,
    raw_rows,           \* the rows load_data returned to this run
    prev_status         \* how the run before this one ended

vars == << uploaded_file, default_file, pc, status, steps, file_source, df,
           error, missing_cols, selected_region, selected_district, top_n,
           min_growth_rate, filtered_df, region_title, messages, kpi,
           high_growth_sorted, top_stores_df, quad, trend, filter_min_growth,
           filter_min_stores, sort_option, detail_df, raw_rows, prev_status >>

NoFrame == [none |-> TRUE, columns |-> {}, rows |-> <<>>]
NoKpi == [total_industries |-> 0, total_stores |-> 0, prev_total |-> 0,
          growth_sum |-> 0, high_growth_count |-> 0,
          high_growth_pct |-> [err |-> FALSE, num |-> 0, den |-> 1]]
NoQuad == [median_stores2 |-> NaN, median_growth2 |-> NaN,
           q1 |-> <<>>, q2 |-> <<>>, q3 |-> <<>>, q4 |-> <<>>]
NoTrend == [increase |-> 0, decrease |-> 0, stable |-> 0,
            increase_pct |-> [err |-> FALSE, num |-> 0, den |-> 1],
            decrease_pct |-> [err |-> FALSE, num |-> 0, den |-> 1]]

\* the variables of a run before the script has assigned them
FreshRun ==
    /\ file_source = None
    /\ df = NoFrame
    /\ error = "None"
    /\ missing_cols = <<>>
    /\ selected_region = ALL
    /\ selected_district = ALL
    /\ top_n = TopNDefault
    /\ min_growth_rate = MinGrowthDefault
    /\ filtered_df = <<>>
    /\ region_title = <<>>
    /\ messages = <<>>
    /\ kpi = NoKpi
    /\ high_growth_sorted = <<>>
    /\ top_stores_df = <<>>
    /\ quad = NoQuad
    /\ trend = NoTrend
    /\ filter_min_growth = FilterMinGrowthDefault
    /\ filter_min_stores = FilterMinStoresDefault
    /\ sort_option = "stores_desc"
    /\ detail_df = <<>>
    /\ raw_rows = <<>>
    /\ steps = <<>>

\* the page is opened: nothing uploaded, the first run starts
Init ==
    /\ uploaded_file = None
    /\ default_file \in DefaultFiles
    /\ pc = "source"
    /\ status = "running"
    /\ prev_status = "none"
    /\ FreshRun

Msg(level, text, arg) == [level |-> level, text |-> text, arg |-> arg]

\* ---------------------------------------------------- pandas helpers ---
Min(a, b) == IF a < b THEN a ELSE b

\* DataFrame.head(n)
head(s, n) == SubSeq(s, 1, Min(n, Len(s)))

\* df[mask], the rows satisfying the mask in the frame's order, is SelectSeq.

RECURSIVE Perms(_)
Perms(S) ==
    IF S = {} THEN {<<>>}
    ELSE UNION {{<<x>> \o p : p \in Perms(S \ {x})} : x \in S}

\* whether key a is placed before key b
Before(a, b, ascending) == IF ascending THEN a < b ELSE a > b

\* the orders in which rows with equal keys may come out of the sort
\* DataFrame.sort_values(by, ascending) is called without kind=, so it
\* sorts with pandas' default kind='quicksort', which is not stable.
TieOrders(group) == Perms(group)

\* DataFrame.sort_values(by=by, ascending=ascending): every result the
\* sort can return, the rows ordered by key.
RECURSIVE Orderings(_, _, _)
Orderings(S, by, ascending) ==
    IF S = {} THEN {<<>>}
    ELSE LET first == CHOOSE r \in S :
                         \A q \in S : ~Before(q[by], r[by], ascending)
             group == {r \in S : r[by] = first[by]}
         IN {p \o rest : p \in TieOrders(group),
                         rest \in Orderings(S \ group, by, ascending)}

sort_values(rows, by, ascending) == Orderings(Range(rows), by, ascending)

\* Series.sum(), which skips NaN
RECURSIVE Sum(_)
Sum(s) ==
    IF s = <<>> THEN 0
    ELSE (IF s[1] = NaN THEN 0 ELSE s[1]) + Sum(Tail(s))

\* df[col]
Column(rows, col) == [i \in 1..Len(rows) |-> rows[i][col]]

\* part / total * 100, as the exact fraction num/den; a zero total raises
\* ZeroDivisionError
Percent(part, total) ==
    IF total = 0 THEN [err |-> TRUE, num |-> 0, den |-> 0]
    ELSE [err |-> FALSE, num |-> part * 100, den |-> total]

Zero == [err |-> FALSE, num |-> 0, den |-> 1]

\* twice Series.median() (the mean of the two middle values when the count
\* is even); NaN for an empty series
Median2(rows, col) ==
    LET n == Len(rows)
        Kth(k) == CHOOSE v \in {rows[i][col] : i \in 1..n} :
                     /\ Cardinality({i \in 1..n : rows[i][col] < v}) < k
                     /\ Cardinality({i \in 1..n : rows[i][col] <= v}) >= k
    IN IF n = 0 THEN NaN
       ELSE IF n % 2 = 1 THEN 2 * Kth((n + 1) \div 2)
       ELSE Kth(n \div 2) + Kth(n \div 2 + 1)

\* (mutant) the boundary excluded: series > median
GtMedian(v, m2) == m2 # NaN /\ 2 * v > m2

\* series >= median and series < median; every comparison with NaN is False
GeMedian(v, m2) == m2 # NaN /\ 2 * v >= m2
LtMedian(v, m2) == m2 # NaN /\ 2 * v < m2

\* ------------------------------------------------------ the script ---
\* load_data(file_source): (df, None), or (None, str(e)) when read_excel
\* raises.  st.cache_data memoises it by the source and hands out a copy of
\* the stored result on every call; the file at default_file_path does not
\* change during a session and an upload is keyed by its content, so a
\* memoised result equals a fresh read and the memo is not modelled.
load_data(source) ==
    IF source.kind = "table"
    THEN [df |-> [none |-> FALSE, columns |-> source.columns, rows |-> source.rows],
          error |-> "None"]
    ELSE [df |-> NoFrame, error |-> source.msg]

\* Python's truth value of load_data's error: None and '' are false
Truthy(e) == e \notin {"None", ""}

\* (mutant) the loop stops at the first absent header
MissingColsFirstOnly(columns) ==
    LET Absent(c) == c \notin columns
        all == SelectSeq(required_columns, Absent)
    IN IF all = <<>> THEN <<>> ELSE <<all[1]>>

\* (mutant) the district header is not required
MissingColsDistrictOptional(columns) ==
    LET Absent(c) == c \notin columns /\ c # district_col
    IN SelectSeq(required_columns, Absent)

\* the loop over required_columns.items() collecting the absent headers
MissingCols(columns) ==
    LET Absent(c) == c \notin columns
    IN SelectSeq(required_columns, Absent)

\* the three pd.to_numeric(..., errors='coerce') assignments
Coerce(rows) ==
    [i \in 1..Len(rows) |->
        [rows[i] EXCEPT !.current = to_numeric(@),
                        !.previous = to_numeric(@),
                        !.growth = to_numeric(@)]]

\* (mutant) df.dropna() without subset=: any missing cell drops the row
DropNaAnyColumn(rows) ==
    LET Kept(r) == r[stores_col] # NaN /\ r[growth_col] # NaN /\ r[prev_stores_col] # NaN
    IN SelectSeq(rows, Kept)

\* df.dropna(subset=[stores_col, growth_col])
DropNa(rows) ==
    LET Kept(r) == r[stores_col] # NaN /\ r[growth_col] # NaN
    IN SelectSeq(rows, Kept)

Clean(rows) == DropNa(Coerce(rows))

\* the options of the two selectboxes
Regions(rows) == {ALL} \cup {rows[i][region_col] : i \in 1..Len(rows)}
Districts(rows, region) ==
    IF region # ALL
    THEN {ALL} \cup {rows[i][district_col] :
                        i \in {j \in 1..Len(rows) : rows[j][region_col] = region}}
    ELSE {ALL}

\* the values of the slider and of the threshold the model explores
SliderChoices == {TopNMin, TopNDefault}
MinGrowthChoices == {MinGrowthDefault, MinGrowthDefault + 50}

\* (mutant) the district mask without the region mask
FilterRowsDistrictOnly(rows, region, district) ==
    LET InRegion(r) == r[region_col] = region
        InDistrict(r) == r[district_col] = district
    IN IF region = ALL THEN rows
       ELSE IF district = ALL THEN SelectSeq(rows, InRegion)
       ELSE SelectSeq(rows, InDistrict)

\* filtered_df
FilterRows(rows, region, district) ==
    LET InRegion(r) == r[region_col] = region
        InDistrict(r) == r[region_col] = region /\ r[district_col] = district
    IN IF region = ALL THEN rows
       ELSE IF district = ALL THEN SelectSeq(rows, InRegion)
       ELSE SelectSeq(rows, InDistrict)

\* region_title
RegionTitle(region, district) ==
    IF region = ALL THEN <<ALL_TITLE>>
    ELSE IF district = ALL THEN <<region>>
    ELSE <<region, district>>

\* (mutant) the guard never fires
IsEmptyNever(rows) == FALSE

\* (mutant) the guard inverted
IsEmptyInverted(rows) == Len(rows) # 0

\* filtered_df.empty
IsEmpty(rows) == Len(rows) = 0

\* (mutant) the threshold excluded: growth > min_rate
HighGrowthStrict(rows, min_rate) ==
    LET Fast(r) == r[growth_col] > min_rate
    IN SelectSeq(rows, Fast)

\* high_growth_df
HighGrowth(rows, min_rate) ==
    LET Fast(r) == r[growth_col] >= min_rate
    IN SelectSeq(rows, Fast)

\* high_growth_sorted: every value the expression can have
TopGrowth(rows, n, min_rate) ==
    {head(s, n) : s \in sort_values(HighGrowth(rows, min_rate), growth_col, FALSE)}

\* top_stores_df
TopVolume(rows, n) == {head(s, n) : s \in sort_values(rows, stores_col, FALSE)}

\* q1 .. q4 against the two medians
Quadrants(rows) ==
    LET ms == Median2(rows, stores_col)
        mg == Median2(rows, growth_col)
        Q1(r) == GeMedian(r[stores_col], ms) /\ GeMedian(r[growth_col], mg)
        Q2(r) == LtMedian(r[stores_col], ms) /\ GeMedian(r[growth_col], mg)
        Q3(r) == LtMedian(r[stores_col], ms) /\ LtMedian(r[growth_col], mg)
        Q4(r) == GeMedian(r[stores_col], ms) /\ LtMedian(r[growth_col], mg)
    IN [median_stores2 |-> ms, median_growth2 |-> mg,
        q1 |-> SelectSeq(rows, Q1), q2 |-> SelectSeq(rows, Q2),
        q3 |-> SelectSeq(rows, Q3), q4 |-> SelectSeq(rows, Q4)]

\* sort_mapping
sort_mapping(option) ==
    CASE option = "stores_desc" -> <<stores_col, FALSE>>
      [] option = "stores_asc" -> <<stores_col, TRUE>>
      [] option = "growth_desc" -> <<growth_col, FALSE>>
      [] option = "growth_asc" -> <<growth_col, TRUE>>

SortOptions == {"stores_desc", "stores_asc", "growth_desc", "growth_asc"}

\* detail_df: every value the expression can have
CustomFilterSort(rows, min_growth, min_stores, option) ==
    LET Shown(r) == r[growth_col] >= min_growth /\ r[stores_col] >= min_stores
    IN sort_values(SelectSeq(rows, Shown), sort_mapping(option)[1], sort_mapping(option)[2])

FilterMinGrowthChoices == {FilterMinGrowthDefault, MinGrowthDefault}
FilterMinStoresChoices == {FilterMinStoresDefault, FilterMinStoresDefault + 200}

\* the five KPI metrics
Kpi(rows, min_rate) ==
    LET total_industries == Len(rows)
        high_growth_count == Len(HighGrowth(rows, min_rate))
    IN [total_industries |-> total_industries,
        total_stores |-> Sum(Column(rows, stores_col)),
        prev_total |-> Sum(Column(rows, prev_stores_col)),
        growth_sum |-> Sum(Column(rows, growth_col)),
        high_growth_count |-> high_growth_count,
        high_growth_pct |-> IF total_industries > 0
                            THEN Percent(high_growth_count, total_industries)
                            ELSE Zero]

\* increase / decrease / stable and the two percentages of the metrics
Trend(rows) ==
    LET Up(r) == r[growth_col] > 0
        Down(r) == r[growth_col] < 0
        Flat(r) == r[growth_col] = 0
    IN [increase |-> Len(SelectSeq(rows, Up)),
        decrease |-> Len(SelectSeq(rows, Down)),
        stable |-> Len(SelectSeq(rows, Flat)),
        increase_pct |-> Percent(Len(SelectSeq(rows, Up)), Len(rows)),
        decrease_pct |-> Percent(Len(SelectSeq(rows, Down)), Len(rows))]

\* ----------------------------------------------------------- actions ---
Ran(step) == steps' = Append(steps, step)

\* st.stop() after showing msgs
Stop(msgs) ==
    /\ pc' = "idle"
    /\ status' = "stopped"
    /\ messages' = messages \o msgs

Goto(next, msgs) ==
    /\ pc' = next
    /\ status' = status
    /\ messages' = messages \o msgs

\* a rerun starts the script from its first line with fresh variables
StartRun ==
    /\ pc' = "source"
    /\ status' = "running"
    /\ prev_status' = status
    /\ file_source' = None
    /\ df' = NoFrame
    /\ error' = "None"
    /\ missing_cols' = <<>>
    /\ selected_region' = ALL
    /\ selected_district' = ALL
    /\ top_n' = TopNDefault
    /\ min_growth_rate' = MinGrowthDefault
    /\ filtered_df' = <<>>
    /\ region_title' = <<>>
    /\ messages' = <<>>
    /\ kpi' = NoKpi
    /\ high_growth_sorted' = <<>>
    /\ top_stores_df' = <<>>
    /\ quad' = NoQuad
    /\ trend' = NoTrend
    /\ filter_min_growth' = FilterMinGrowthDefault
    /\ filter_min_stores' = FilterMinStoresDefault
    /\ sort_option' = "stores_desc"
    /\ detail_df' = <<>>
    /\ raw_rows' = <<>>
    /\ steps' = <<>>
    /\ UNCHANGED default_file

\* the user uploads (or replaces) a file
Upload ==
    /\ pc = "idle"
    /\ \E f \in Files : uploaded_file' = f
    /\ StartRun

\* the user removes the uploaded file
ClearUpload ==
    /\ pc = "idle"
    /\ uploaded_file # None
    /\ uploaded_file' = None
    /\ StartRun

\* the user moves a selectbox, the slider or a number input
WidgetChange ==
    /\ pc = "idle"
    /\ UNCHANGED uploaded_file
    /\ StartRun

\* lines 39-50: the file source
FileSource ==
    /\ pc = "source"
    /\ Ran("source")
    /\ IF uploaded_file # None
       THEN /\ file_source' = uploaded_file
            /\ Goto("load", <<Msg("success", "uploaded", <<>>)>>)
       ELSE IF default_file # None
       THEN /\ file_source' = default_file
            /\ Goto("load", <<Msg("info", "using_default", <<>>)>>)
       ELSE /\ file_source' = file_source
            /\ Stop(<<Msg("error", "no_file", <<>>),
                      Msg("info", "upload_hint", <<>>)>>)
    /\ UNCHANGED << uploaded_file, default_file, df, error, missing_cols,
                    selected_region, selected_district, top_n, min_growth_rate,
                    filtered_df, region_title, kpi, high_growth_sorted,
                    top_stores_df, quad, trend, filter_min_growth,
                    filter_min_stores, sort_option, detail_df, raw_rows,
                    prev_status >>

\* lines 53-62: load_data and its two guards
Load ==
    /\ pc = "load"
    /\ Ran("load")
    /\ LET r == load_data(file_source)
       IN /\ df' = r.df
          /\ error' = r.error
          /\ raw_rows' = r.df.rows
          /\ IF Truthy(r.error)
             THEN Stop(<<Msg("error", "load_error", <<r.error>>),
                         Msg("info", "check_path", <<>>)>>)
             ELSE IF r.df.none
             THEN Stop(<<Msg("error", "cannot_load", <<>>)>>)
             ELSE Goto("columns", <<>>)
    /\ UNCHANGED << uploaded_file, default_file, file_source, missing_cols,
                    selected_region, selected_district, top_n, min_growth_rate,
                    filtered_df, region_title, kpi, high_growth_sorted,
                    top_stores_df, quad, trend, filter_min_growth,
                    filter_min_stores, sort_option, detail_df, prev_status >>

\* lines 72-101: the header check
Columns ==
    /\ pc = "columns"
    /\ Ran("columns")
    /\ missing_cols' = MissingCols(df.columns)
    /\ IF missing_cols' # <<>>
       THEN Stop(<<Msg("error", "missing_columns", missing_cols'),
                   Msg("info", "check_columns_hint", <<>>)>>)
       ELSE Goto("clean", <<Msg("success", "columns_ok", <<>>)>>)
    /\ UNCHANGED << uploaded_file, default_file, file_source, df, error,
                    selected_region, selected_district, top_n, min_growth_rate,
                    filtered_df, region_title, kpi, high_growth_sorted,
                    top_stores_df, quad, trend, filter_min_growth,
                    filter_min_stores, sort_option, detail_df, raw_rows,
                    prev_status >>

\* lines 103-109: coercion and dropna
CleanStep ==
    /\ pc = "clean"
    /\ Ran("clean")
    /\ df' = [df EXCEPT !.rows = Clean(@)]
    /\ Goto("sidebar", <<>>)
    /\ UNCHANGED << uploaded_file, default_file, file_source, error,
                    missing_cols, selected_region, selected_district, top_n,
                    min_growth_rate, filtered_df, region_title, kpi,
                    high_growth_sorted, top_stores_df, quad, trend,
                    filter_min_growth, filter_min_stores, sort_option,
                    detail_df, raw_rows, prev_status >>

\* lines 111-134: the sidebar widgets return the user's current choices
Sidebar ==
    /\ pc = "sidebar"
    /\ Ran("sidebar")
    /\ selected_region' \in Regions(df.rows)
    /\ selected_district' \in Districts(df.rows, selected_region')
    /\ top_n' \in SliderChoices
    /\ min_growth_rate' \in MinGrowthChoices
    /\ Goto("filter", <<Msg("info", "criteria", <<>>)>>)
    /\ UNCHANGED << uploaded_file, default_file, file_source, df, error,
                    missing_cols, filtered_df, region_title, kpi,
                    high_growth_sorted, top_stores_df, quad, trend,
                    filter_min_growth, filter_min_stores, sort_option,
                    detail_df, raw_rows, prev_status >>

\* lines 136-150: the region/district filter and its guard
FilterStep ==
    /\ pc = "filter"
    /\ Ran("filter")
    /\ filtered_df' = FilterRows(df.rows, selected_region, selected_district)
    /\ region_title' = RegionTitle(selected_region, selected_district)
    /\ IF IsEmpty(filtered_df')
       THEN Stop(<<Msg("warning", "no_data", region_title')>>)
       ELSE Goto("kpi", <<>>)
    /\ UNCHANGED << uploaded_file, default_file, file_source, df, error,
                    missing_cols, selected_region, selected_district, top_n,
                    min_growth_rate, kpi, high_growth_sorted, top_stores_df,
                    quad, trend, filter_min_growth, filter_min_stores,
                    sort_option, detail_df, raw_rows, prev_status >>

\* lines 152-194: the KPI metrics
KpiStep ==
    /\ pc = "kpi"
    /\ Ran("kpi")
    /\ kpi' = Kpi(filtered_df, min_growth_rate)
    /\ Goto("tab1", <<>>)
    /\ UNCHANGED << uploaded_file, default_file, file_source, df, error,
                    missing_cols, selected_region, selected_district, top_n,
                    min_growth_rate, filtered_df, region_title,
                    high_growth_sorted, top_stores_df, quad, trend,
                    filter_min_growth, filter_min_stores, sort_option,
                    detail_df, raw_rows, prev_status >>

\* lines 207-310: tab 1, the high-growth ranking
Tab1 ==
    /\ pc = "tab1"
    /\ Ran("tab1")
    /\ IF HighGrowth(filtered_df, min_growth_rate) = <<>>
       THEN /\ high_growth_sorted' = high_growth_sorted
            /\ Goto("tab2", <<Msg("info", "no_high_growth", <<>>)>>)
       ELSE /\ high_growth_sorted' \in TopGrowth(filtered_df, top_n, min_growth_rate)
            /\ Goto("tab2", <<>>)
    /\ UNCHANGED << uploaded_file, default_file, file_source, df, error,
                    missing_cols, selected_region, selected_district, top_n,
                    min_growth_rate, filtered_df, region_title, kpi,
                    top_stores_df, quad, trend, filter_min_growth,
                    filter_min_stores, sort_option, detail_df, raw_rows,
                    prev_status >>

\* lines 313-387: tab 2, the ranking by current count
Tab2 ==
    /\ pc = "tab2"
    /\ Ran("tab2")
    /\ top_stores_df' \in TopVolume(filtered_df, top_n)
    /\ Goto("tab3", <<>>)
    /\ UNCHANGED << uploaded_file, default_file, file_source, df, error,
                    missing_cols, selected_region, selected_district, top_n,
                    min_growth_rate, filtered_df, region_title, kpi,
                    high_growth_sorted, quad, trend, filter_min_growth,
                    filter_min_stores, sort_option, detail_df, raw_rows,
                    prev_status >>

\* lines 390-477: tab 3, the quadrants and the trend split; the trend
\* percentages divide by len(filtered_df), and a ZeroDivisionError would
\* end the run with the exception shown
Tab3 ==
    /\ pc = "tab3"
    /\ Ran("tab3")
    /\ quad' = Quadrants(filtered_df)
    /\ trend' = Trend(filtered_df)
    /\ IF trend'.increase_pct.err \/ trend'.decrease_pct.err
       THEN /\ pc' = "idle"
            /\ status' = "crashed"
            /\ messages' = Append(messages, Msg("exception", "ZeroDivisionError", <<>>))
       ELSE Goto("tab4", <<>>)
    /\ UNCHANGED << uploaded_file, default_file, file_source, df, error,
                    missing_cols, selected_region, selected_district, top_n,
                    min_growth_rate, filtered_df, region_title, kpi,
                    high_growth_sorted, top_stores_df, filter_min_growth,
                    filter_min_stores, sort_option, detail_df, raw_rows,
                    prev_status >>

\* lines 480-524: tab 4, the detail table; the script ends
Tab4 ==
    /\ pc = "tab4"
    /\ Ran("tab4")
    /\ filter_min_growth' \in FilterMinGrowthChoices
    /\ filter_min_stores' \in FilterMinStoresChoices
    /\ sort_option' \in SortOptions
    /\ detail_df' \in CustomFilterSort(filtered_df, filter_min_growth',
                                       filter_min_stores', sort_option')
    /\ pc' = "idle"
    /\ status' = "complete"
    /\ messages' = Append(messages, Msg("info", "filtered_count", <<>>))
    /\ UNCHANGED << uploaded_file, default_file, file_source, df, error,
                    missing_cols, selected_region, selected_district, top_n,
                    min_growth_rate, filtered_df, region_title, kpi,
                    high_growth_sorted, top_stores_df, quad, trend, raw_rows,
                    prev_status >>

Next ==
    \/ Upload
    \/ ClearUpload
    \/ WidgetChange
    \/ FileSource
    \/ Load
    \/ Columns
    \/ CleanStep
    \/ Sidebar
    \/ FilterStep
    \/ KpiStep
    \/ Tab1
    \/ Tab2
    \/ Tab3
    \/ Tab4

Spec == Init /\ [][Next]_vars

\* ------------------------------------------- specifications of the parts ---
\* Each starts a run at one block of the script, with an uploaded
\* spreadsheet drawn from a set that varies what that block reads, and
\* applies that block.

\* the state of a run of an uploaded spreadsheet that has passed the header
\* check and was cleaned to frame_rows, before any sidebar widget
Uploaded(file, frame_rows, done, shown) ==
    /\ file.columns = AllColumns
    /\ uploaded_file = file
    /\ default_file = None
    /\ status = "running"
    /\ prev_status = "stopped"
    /\ steps = done
    /\ file_source = file
    /\ df = [none |-> FALSE, columns |-> file.columns, rows |-> frame_rows]
    /\ error = "None"
    /\ missing_cols = <<>>
    /\ raw_rows = file.rows
    /\ messages = shown

FilterUnset ==
    /\ selected_region = ALL
    /\ selected_district = ALL
    /\ top_n = TopNDefault
    /\ min_growth_rate = MinGrowthDefault
    /\ filtered_df = <<>>
    /\ region_title = <<>>

ViewsUnset ==
    /\ high_growth_sorted = <<>>
    /\ top_stores_df = <<>>
    /\ quad = NoQuad
    /\ trend = NoTrend
    /\ filter_min_growth = FilterMinGrowthDefault
    /\ filter_min_stores = FilterMinStoresDefault
    /\ sort_option = "stores_desc"
    /\ detail_df = <<>>

ShownToClean == << Msg("success", "uploaded", <<>>), Msg("success", "columns_ok", <<>>) >>
ShownToFilter == Append(ShownToClean, Msg("info", "criteria", <<>>))

\* cleaning: the numeric cells vary
CleanSpecRows ==
    { RawRow("cafe", "Seoul", "Gangnam", cur, prev, gro) :
        cur \in {NumCell(120), StrCell(300), TextCell},
        prev \in {NumCell(50), BlankCell},
        gro \in {NumCell(150), NumCell(0), TextCell} }

InitClean ==
    /\ \E rows \in SeqsUpTo(CleanSpecRows, MaxCleanRows) :
          Uploaded(Table(AllColumns, rows), Reindex(rows),
                   <<"source", "load", "columns">>, ShownToClean)
    /\ pc = "clean"
    /\ kpi = NoKpi
    /\ FilterUnset
    /\ ViewsUnset

SpecClean == InitClean /\ [][CleanStep]_vars

\* filtering: region and district vary
FilterSpecRows ==
    { RawRow("cafe", reg, dis, NumCell(120), NumCell(50), NumCell(150)) :
        reg \in {"Seoul", "Busan"}, dis \in {"Jung", "Gangnam"} }

InitFilter ==
    /\ \E rows \in SeqsUpTo(FilterSpecRows, MaxFilterRows) :
          Uploaded(Table(AllColumns, rows), Clean(Reindex(rows)),
                   <<"source", "load", "columns", "clean">>, ShownToClean)
    /\ pc = "sidebar"
    /\ kpi = NoKpi
    /\ FilterUnset
    /\ ViewsUnset

NextFilter ==
    \/ Sidebar
    \/ FilterStep

SpecFilter == InitFilter /\ [][NextFilter]_vars

\* the state of a run that selected no region and has reached the tabs
Unfiltered(rows, n, min_rate) ==
    /\ rows # <<>>
    /\ Uploaded(Table(AllColumns, rows), Clean(Reindex(rows)),
                <<"source", "load", "columns", "clean", "sidebar", "filter", "kpi">>,
                ShownToFilter)
    /\ selected_region = ALL
    /\ selected_district = ALL
    /\ top_n = n
    /\ min_growth_rate = min_rate
    /\ filtered_df = FilterRows(Clean(Reindex(rows)), ALL, ALL)
    /\ region_title = RegionTitle(ALL, ALL)
    /\ kpi = Kpi(filtered_df, min_rate)

\* TopGrowth: the rates, the threshold and the slider vary
GrowthSpecRows ==
    { RawRow("cafe", "Seoul", "Gangnam", NumCell(120), NumCell(50), NumCell(150)),
      RawRow("store", "Seoul", "Gangnam", NumCell(300), NumCell(250), NumCell(20)),
      RawRow("bakery", "Seoul", "Gangnam", NumCell(80), NumCell(40), NumCell(100)) }

GrowthSpecThresholds ==
    {MinGrowthDefault, MinGrowthDefault + 50, MinGrowthDefault + 100}

InitTopGrowth ==
    /\ \E rows \in SeqsUpTo(GrowthSpecRows, MaxGrowthRows) :
       \E n \in SliderChoices :
       \E min_rate \in GrowthSpecThresholds :
          Unfiltered(rows, n, min_rate)
    /\ pc = "tab1"
    /\ ViewsUnset

SpecTopGrowth == InitTopGrowth /\ [][Tab1]_vars

\* quadrants: counts and rates vary
QuadSpecRows ==
    { RawRow("cafe", "Seoul", "Gangnam", NumCell(c), NumCell(50), NumCell(g)) :
        c \in {80, 120}, g \in {-10, 0, 150} }

InitQuadrants ==
    /\ \E rows \in SeqsUpTo(QuadSpecRows, MaxQuadRows) :
          Unfiltered(rows, TopNDefault, MinGrowthDefault)
    /\ pc = "tab3"
    /\ high_growth_sorted = CHOOSE hg \in TopGrowth(filtered_df, top_n, min_growth_rate) : TRUE
    /\ top_stores_df = CHOOSE ts \in TopVolume(filtered_df, top_n) : TRUE
    /\ quad = NoQuad
    /\ trend = NoTrend
    /\ filter_min_growth = FilterMinGrowthDefault
    /\ filter_min_stores = FilterMinStoresDefault
    /\ sort_option = "stores_desc"
    /\ detail_df = <<>>

SpecQuadrants == InitQuadrants /\ [][Tab3]_vars

\* ------------------------------------------------------------ claims ---
Did(step) == step \in Range(steps)
Ids(rows) == {rows[i].idx : i \in 1..Len(rows)}
InOrder(rows) == \A i, j \in 1..Len(rows) : i < j => rows[i].idx < rows[j].idx
Signals == {messages[i].text : i \in {j \in 1..Len(messages) :
                                        messages[j].level \in {"error", "warning"}}}

\* C1: once tab 1 has run, high_growth_sorted holds only rows of filtered_df
\* with growth >= min_growth_rate, each at most once, in non-increasing
\* growth order; its length is min(top_n, number of such rows), top_n lies
\* in the slider's range, and no such row left out has a growth strictly
\* greater than that of a row taken.
C1_TopGrowth ==
    Did("tab1") =>
        LET D == filtered_df
            R == high_growth_sorted
            Qual == {i \in 1..Len(D) : D[i].growth >= min_growth_rate}
        IN /\ top_n \in TopNMin..TopNMax
           /\ \A i \in 1..Len(R) : \E j \in Qual : R[i] = D[j]
           /\ Cardinality(Ids(R)) = Len(R)
           /\ \A i \in 1..(Len(R) - 1) : R[i].growth >= R[i + 1].growth
           /\ Len(R) <= top_n
           /\ Len(R) = IF Cardinality(Qual) < top_n THEN Cardinality(Qual) ELSE top_n
           /\ \A j \in Qual : D[j].idx \notin Ids(R) =>
                 \A i \in 1..Len(R) : D[j].growth <= R[i].growth

\* C1 witness: more rows qualify than the slider allows, the cut was made
\* and the rows taken have different rates
C1_Witness ==
    /\ Did("tab1")
    /\ Len(high_growth_sorted) = top_n
    /\ Cardinality({i \in 1..Len(filtered_df) :
                      filtered_df[i].growth >= min_growth_rate}) > top_n
    /\ high_growth_sorted[1].growth > high_growth_sorted[top_n].growth

\* C2: once tab 3 has run on a non-empty filtered_df, q1..q4 hold rows of
\* filtered_df, each at most once, are pairwise disjoint and together hold
\* every row; at most half of the rows lie strictly on either side of each
\* median, and a row exactly at a median lies in a ">=" quadrant.
C2_Quadrants ==
    (Did("tab3") /\ filtered_df # <<>>) =>
        LET D == filtered_df
            n == Len(D)
            Q == <<quad.q1, quad.q2, quad.q3, quad.q4>>
            Below(col, m2) == Cardinality({i \in 1..n : 2 * D[i][col] < m2})
            Above(col, m2) == Cardinality({i \in 1..n : 2 * D[i][col] > m2})
        IN /\ \A k \in 1..4 : /\ Range(Q[k]) \subseteq Range(D)
                              /\ Cardinality(Ids(Q[k])) = Len(Q[k])
           /\ \A k, l \in 1..4 : k # l => Ids(Q[k]) \cap Ids(Q[l]) = {}
           /\ UNION {Ids(Q[k]) : k \in 1..4} = Ids(D)
           /\ 2 * Below("current", quad.median_stores2) <= n
           /\ 2 * Above("current", quad.median_stores2) <= n
           /\ 2 * Below("growth", quad.median_growth2) <= n
           /\ 2 * Above("growth", quad.median_growth2) <= n
           /\ \A i \in 1..n :
                 /\ 2 * D[i].current = quad.median_stores2 =>
                       D[i].idx \in Ids(quad.q1) \cup Ids(quad.q4)
                 /\ 2 * D[i].growth = quad.median_growth2 =>
                       D[i].idx \in Ids(quad.q1) \cup Ids(quad.q2)

\* C2 witness: all four quadrants hold a row and a row lies exactly at both
\* medians
C2_Witness ==
    /\ Did("tab3")
    /\ quad.q1 # <<>> /\ quad.q2 # <<>> /\ quad.q3 # <<>> /\ quad.q4 # <<>>
    /\ \E i \in 1..Len(filtered_df) :
          /\ 2 * filtered_df[i].current = quad.median_stores2
          /\ 2 * filtered_df[i].growth = quad.median_growth2

\* C3: once the cleaning block has run, the frame holds exactly the loaded
\* rows whose current and growth cells are numbers or spell numbers, in
\* their loaded order and each once, with those cells' values (never a
\* filled one); a row whose previous cell is no number is kept, with a
\* missing previous.
C3_Clean ==
    Did("clean") =>
        LET R == df.rows
            Numeric(c) == c.k \in {"num", "str"}
            Keep == {i \in 1..Len(raw_rows) :
                       Numeric(raw_rows[i].current) /\ Numeric(raw_rows[i].growth)}
        IN /\ Ids(R) = Keep
           /\ InOrder(R)
           /\ \A i \in 1..Len(R) :
                 LET o == raw_rows[R[i].idx]
                 IN /\ R[i].current = o.current.v
                    /\ R[i].growth = o.growth.v
                    /\ R[i].previous = IF Numeric(o.previous) THEN o.previous.v ELSE NaN
                    /\ R[i].industry = o.industry
                    /\ R[i].region = o.region
                    /\ R[i].district = o.district

\* C3 witness: a row was dropped ahead of a kept one, two rows were kept,
\* one of them with a previous cell that is no number
C3_Witness ==
    /\ Did("clean")
    /\ Len(df.rows) >= 2
    /\ df.rows[1].idx > 1
    /\ \E i \in 1..Len(df.rows) : df.rows[i].previous = NaN

\* C4: once the filter block has run, filtered_df is the frame itself when
\* the region is ALL, the frame's rows of the selected region when the
\* district is ALL, and otherwise the frame's rows of the selected region
\* and district; always in the frame's order.
C4_Filter ==
    Did("filter") =>
        LET D == df.rows
            F == filtered_df
            Match(r) ==
                \/ selected_region = ALL
                \/ selected_district = ALL /\ r.region = selected_region
                \/ r.region = selected_region /\ r.district = selected_district
        IN /\ Range(F) = {r \in Range(D) : Match(r)}
           /\ InOrder(F)
           /\ selected_region = ALL => (selected_district = ALL /\ F = D)

\* C4 witness: a region and a district are selected, and the frame holds a
\* matching row, a row of another district of the region and a row of the
\* same district of another region
C4_Witness ==
    /\ Did("filter")
    /\ selected_region # ALL
    /\ selected_district # ALL
    /\ filtered_df # <<>>
    /\ \E i, j \in 1..Len(df.rows) :
          /\ df.rows[i].region = selected_region
          /\ df.rows[i].district # selected_district
          /\ df.rows[j].region # selected_region
          /\ df.rows[j].district = selected_district

\* C5: once the header check has run: if a required header is absent from
\* the loaded table, one error names exactly the absent headers, each once,
\* the run has stopped right there and the frame is as loaded, with nothing
\* filtered or computed; if none is absent, no such error is shown.
C5_SchemaMismatch ==
    Did("columns") =>
        LET absent == AllColumns \ df.columns
            named == {messages[i].arg : i \in {j \in 1..Len(messages) :
                                                 messages[j].text = "missing_columns"}}
        IN IF absent # {}
           THEN /\ \E a \in named : Range(a) = absent /\ Len(a) = Cardinality(absent)
                /\ Cardinality(named) = 1
                /\ Signals = {"missing_columns"}
                /\ pc = "idle"
                /\ status = "stopped"
                /\ steps = <<"source", "load", "columns">>
                /\ df.rows = raw_rows
                /\ filtered_df = <<>>
                /\ kpi = NoKpi /\ quad = NoQuad /\ trend = NoTrend
                /\ high_growth_sorted = <<>> /\ top_stores_df = <<>> /\ detail_df = <<>>
           ELSE /\ named = {}
                /\ "missing_columns" \notin Signals

\* C5 witness: a run stopped by a table lacking two headers
C5_Witness ==
    /\ Did("columns")
    /\ status = "stopped"
    /\ Cardinality(AllColumns \ df.columns) = 2

\* C6: the run never ends in a ZeroDivisionError; once the KPI block has
\* run, high_growth_pct is 100 * (rows with growth >= min_growth_rate) over
\* a non-zero row count (and 0 for a zero count); once tab 3 has run, the
\* increasing and decreasing shares are 100 * (rows with growth > 0, < 0)
\* over that non-zero row count.
C6_Percentages ==
    LET D == filtered_df
        n == Len(D)
        Count(P(_)) == Cardinality({i \in 1..n : P(D[i])})
        High(r) == r.growth >= min_growth_rate
        Up(r) == r.growth > 0
        Down(r) == r.growth < 0
        Share(part) == IF n = 0 THEN [err |-> FALSE, num |-> 0, den |-> 1]
                       ELSE [err |-> FALSE, num |-> 100 * part, den |-> n]
    IN /\ status # "crashed"
       /\ Did("kpi") => /\ n # 0
                        /\ kpi.high_growth_pct = Share(Count(High))
       /\ Did("tab3") => /\ n # 0
                         /\ trend.increase_pct = Share(Count(Up))
                         /\ trend.decrease_pct = Share(Count(Down))

\* C6 witness: a run past tab 3 whose rows rise, fall and pass the threshold
C6_Witness ==
    /\ Did("tab3")
    /\ trend.increase > 0
    /\ trend.decrease > 0
    /\ kpi.high_growth_count > 0
    /\ kpi.high_growth_count < kpi.total_industries

\* C7 (as claimed): the three sorted views keep rows of equal sort key in
\* the order they had in filtered_df.
C7_StableSorts ==
    LET Stable(R, col) ==
            \A i, j \in 1..Len(R) :
                (i < j /\ R[i][col] = R[j][col]) => R[i].idx < R[j].idx
    IN /\ Did("tab1") => Stable(high_growth_sorted, "growth")
       /\ Did("tab2") => Stable(top_stores_df, "current")
       /\ Did("tab4") => Stable(detail_df, sort_mapping(sort_option)[1])

\* C8 (as claimed): a run on a table that lacks only the district header
\* ends without an error, with the filter and the views computed.
C8_DistrictOptional ==
    (pc = "idle" /\ ~df.none /\ AllColumns \ df.columns = {"district"}) =>
        /\ Signals = {}
        /\ Did("filter")
        /\ Did("tab4")

\* C8 (amended): once the header check has run on a table without the
\* district header, the run has stopped with the error that names the
\* district header among the absent ones; no filter and no view is computed.
C8_DistrictRequired ==
    (Did("columns") /\ "district" \notin df.columns) =>
        /\ status = "stopped"
        /\ Signals = {"missing_columns"}
        /\ \E i \in 1..Len(messages) :
              /\ messages[i].text = "missing_columns"
              /\ "district" \in Range(messages[i].arg)
        /\ ~Did("clean") /\ ~Did("filter") /\ ~Did("kpi")
        /\ filtered_df = <<>>
        /\ kpi = NoKpi /\ quad = NoQuad /\ trend = NoTrend
        /\ high_growth_sorted = <<>> /\ top_stores_df = <<>> /\ detail_df = <<>>

\* C8 witness: the header check has run on a table lacking only the
\* district header
C8_Witness ==
    /\ Did("columns")
    /\ AllColumns \ df.columns = {"district"}

\* C9 (as claimed): a finished run that did not reach the end shows a
\* load error for an unreadable file, the header error for a table lacking
\* a header, an error of its own for a table of which no row survived
\* cleaning, and the no-data warning for a selection matching no row of a
\* non-empty cleaned table.
C9_DistinctFailures ==
    (pc = "idle" /\ status # "complete") =>
        LET others == {"load_error", "cannot_load", "missing_columns", "no_data"}
        IN /\ file_source.kind = "corrupt" =>
                 (Signals # {} /\ Signals \subseteq {"load_error", "cannot_load"})
           /\ (~df.none /\ df.columns # AllColumns) => Signals = {"missing_columns"}
           /\ (Did("clean") /\ df.rows = <<>>) =>
                 (Signals # {} /\ Signals \cap others = {})
           /\ (Did("filter") /\ df.rows # <<>> /\ filtered_df = <<>>) =>
                 Signals = {"no_data"}

\* the blocks of the script in the order of the file
Pipeline ==
    << "source", "load", "columns", "clean", "sidebar", "filter",
       "kpi", "tab1", "tab2", "tab3", "tab4" >>

C10_State ==
    LET source == IF uploaded_file # None THEN uploaded_file ELSE default_file
        Numeric(c) == c.k \in {"num", "str"}
        good == /\ source.kind = "table"
                /\ source.columns = AllColumns
                /\ \E i \in 1..Len(source.rows) :
                      Numeric(source.rows[i].current) /\ Numeric(source.rows[i].growth)
    IN /\ Len(steps) <= Len(Pipeline)
       /\ steps = SubSeq(Pipeline, 1, Len(steps))
       /\ status \in {"running", "stopped", "complete"}
       /\ status = "stopped" =>
             /\ Cardinality({i \in 1..Len(messages) :
                               messages[i].level \in {"error", "warning"}}) = 1
             /\ ~Did("kpi")
             /\ kpi = NoKpi /\ quad = NoQuad /\ trend = NoTrend
             /\ high_growth_sorted = <<>> /\ top_stores_df = <<>> /\ detail_df = <<>>
       /\ Did("kpi") => (filtered_df # <<>> /\ Signals = {})
       /\ status = "complete" => steps = Pipeline
       /\ pc = "idle" => (status = "complete" <=> good)

C10_Step ==
    /\ pc = "idle" =>
          (pc' = "source" /\ status' = "running" /\ steps' = <<>> /\ messages' = <<>>)
    /\ pc # "idle" =>
          /\ steps' = Append(steps, pc)
          /\ uploaded_file' = uploaded_file
          /\ pc' # "idle" => pc' = Pipeline[Len(steps') + 1]

\* C10: every interaction starts one run from the first block with nothing
\* shown; a run executes the blocks in the order source, load, columns,
\* clean, sidebar, filter, KPI, tabs 1-4, each at most once; a stopped run
\* has shown exactly one error or warning and has computed no KPI or view;
\* KPIs and views are computed only on a non-empty filtered_df and after no
\* error; and whether a run reaches the end depends only on the inputs of
\* that run (a readable source with all headers and a row that survives
\* cleaning), not on how earlier runs ended.
C10_RunDiscipline == [][C10_Step]_vars /\ []C10_State

\* C10 witness: a run that reached the end right after a run that stopped
C10_Witness ==
    /\ pc = "idle"
    /\ status = "complete"
    /\ prev_status = "stopped"
    /\ uploaded_file # None

====
